---- MODULE Spec2Model ----
(***************************************************************************)
(* Reference-counted tree with weak parent back-references                 *)
(* (tree_fix_ref_cycles/src/main.rs).                                      *)
(*                                                                         *)
(* The heap holds Node boxes.  Every box carries the two counters of an    *)
(* Rc allocation (strong, weak) and the three fields of struct Node.       *)
(* The counters are state of their own, updated by the Rc / Weak           *)
(* primitives exactly where the program calls them; the properties relate  *)
(* them to the handles that actually exist.                                *)
(*                                                                         *)
(* The other programs of the repository follow, each with its own          *)
(* variables and its own specification; all specifications start from the  *)
(* same initial state and leave the other programs' variables alone.       *)
(***************************************************************************)
EXTENDS Integers, Sequences, FiniteSets, TLC

\* ---------------------------------------------------------------- bounds
MaxNodes == 3
MaxOps == 6

\* ------------------------------------------------------------- constants
LeafValue == 10
ParentValue == 15

Null == 0
Nodes == 1..MaxNodes

VARIABLES
    status,     \* per box: "free" (never allocated), "live", "dropped" (value destroyed)
    value,      \* Node.value
    parent,     \* Node.parent : RefCell<Weak<Node>>; Null is the dangling Weak::new()
    child,      \* Node.child  : RefCell<Vec<Rc<Node>>>
    strong,     \* Rc strong counter of the box
    weak,       \* number of Weak handles to the box (what Rc::weak_count reports)
    ext,        \* owning handles held in bindings outside the tree
    pc,         \* "start", "client", or the line of main about to run
    locals,     \* main's bindings leaf and parent
    out,        \* the integers main has printed
    ops,        \* operations the client has performed
    last        \* the operation that produced this state

heapVars == <<status, value, parent, child, strong, weak>>
treeVars == <<status, value, parent, child, strong, weak, ext, pc, locals, out, ops, last>>

\* the variables of the other programs, declared with their sections below
VARIABLES
    borrow, held, cpc, panicked, msgs, cops
cellVars == <<borrow, held, cpc, panicked, msgs, cops>>

VARIABLES
    mpc, apc, bpc, bidx, wpc, chan, senders, val, got, mtx, counter, holder, tmp,
    joined, result
concVars == <<mpc, apc, bpc, bidx, wpc, chan, senders, val, got, mtx, counter, holder, tmp,
              joined, result>>

VARIABLES
    post, calls, shown
postVars == <<post, calls, shown>>

VARIABLES
    executor_info, invoked, eargs, rets, epanicked
execVars == <<executor_info, invoked, eargs, rets, epanicked>>

VARIABLES
    list, lext, lpc, refs
listVars == <<list, lext, lpc, refs>>

VARIABLES
    tracker, sets
emailVars == <<tracker, sets>>

VARIABLES
    file, query, found
searchVars == <<file, query, found>>

VARIABLES
    rect, small
rectVars == <<rect, small>>

pureVars == <<searchVars, rectVars>>

\* temp[n]: the handles to n that resolve_parent returned and the caller
\* still holds (they are among the ext[n] bindings)
VARIABLES
    temp
tempVars == <<temp>>

notTree == <<cellVars, concVars, postVars, execVars, listVars, emailVars, pureVars, tempVars>>
notCells == <<treeVars, concVars, postVars, execVars, listVars, emailVars, pureVars, tempVars>>
notConc == <<treeVars, cellVars, postVars, execVars, listVars, emailVars, pureVars, tempVars>>
notPost == <<treeVars, cellVars, concVars, execVars, listVars, emailVars, pureVars, tempVars>>
notExec == <<treeVars, cellVars, concVars, postVars, listVars, emailVars, pureVars, tempVars>>
notList == <<treeVars, cellVars, concVars, postVars, execVars, emailVars, pureVars, tempVars>>
notEmail == <<treeVars, concVars, postVars, execVars, listVars, pureVars, tempVars>>
notSearch == <<treeVars, cellVars, concVars, postVars, execVars, listVars, emailVars, rectVars, tempVars>>
notRect == <<treeVars, cellVars, concVars, postVars, execVars, listVars, emailVars, searchVars, tempVars>>
notTemp == <<cellVars, concVars, postVars, execVars, listVars, emailVars, pureVars>>
vars == <<treeVars, cellVars, concVars, postVars, execVars, listVars, emailVars, pureVars, tempVars>>

Heap ==
    [status |-> status, value |-> value, parent |-> parent, child |-> child,
     strong |-> strong, weak |-> weak]

\* ------------------------------------------------ Rc / Weak primitives
\* variant: the count reported includes the allocation's own implicit weak
RcNewImplicitWeak(h, n, v, kids) ==
    [h EXCEPT !.status[n] = "live", !.value[n] = v, !.parent[n] = Null,
              !.child[n] = kids, !.strong[n] = 1, !.weak[n] = 1]

\* Rc::new(Node { value, parent: RefCell::new(Weak::new()), child: RefCell::new(kids) })
RcNew(h, n, v, kids) ==
    [h EXCEPT !.status[n] = "live", !.value[n] = v, !.parent[n] = Null,
              !.child[n] = kids, !.strong[n] = 1, !.weak[n] = 0]

\* variant: the handle is copied without counting it
RcCloneNoCount(h, n) == h

\* Rc::clone(&n)
RcClone(h, n) ==
    [h EXCEPT !.strong[n] = @ + 1]

\* variant: the Weak is made without counting it
RcDowngradeNoCount(h, n) == h

\* Rc::downgrade(&n)
RcDowngrade(h, n) ==
    [h EXCEPT !.weak[n] = @ + 1]

\* drop of a Weak handle; the dangling Weak::new() points at no box
WeakDrop(h, w) ==
    IF w = Null THEN h ELSE [h EXCEPT !.weak[w] = @ - 1]

\* variant: upgrade without the liveness check
WeakUpgradeUnchecked(h, w) == w

\* Weak::upgrade: the box it yields, Null for None
WeakUpgrade(h, w) ==
    IF w = Null THEN Null
    ELSE IF h.strong[w] = 0 THEN Null
    ELSE w

\* variant: the back-reference is an owning handle (Rc::clone for downgrade)
StoreParentStrong(h, c, p) ==
    WeakDrop([RcClone(h, p) EXCEPT !.parent[c] = p], h.parent[c])

\* variant: the back-reference is also kept as an owning slot of the child
StoreParentOwning(h, c, p) ==
    WeakDrop([RcClone(RcDowngrade(h, p), p) EXCEPT
                 !.parent[c] = p, !.child[c] = Append(@, p)], h.parent[c])

\* variant: the Weak is made but never written into the cell
StoreParentNotWritten(h, c, p) ==
    WeakDrop(RcDowngrade(h, p), p)

\* variant: the Weak that was in the cell is forgotten, not dropped
StoreParentForgetsOld(h, c, p) ==
    [RcDowngrade(h, p) EXCEPT !.parent[c] = p]

\* *c.parent.borrow_mut() = Rc::downgrade(&p): the new Weak is made and
\* stored, and the Weak that was in the cell is dropped by the assignment
StoreParent(h, c, p) ==
    WeakDrop([RcDowngrade(h, p) EXCEPT !.parent[c] = p], h.parent[c])

\* p.child.borrow_mut().push(k): the Rc k moves into the list
PushChild(h, p, k) ==
    [h EXCEPT !.child[p] = Append(@, k)]

\* drop of an Rc handle: the last one destroys the Node, which drops its
\* fields in declaration order (parent, then every element of child)
RECURSIVE RcDrop(_, _)
RECURSIVE DropAll(_, _)
\* variant: the child list's handles are not released
DropNodeKeepsChildren(h, n) ==
    WeakDrop([h EXCEPT !.status[n] = "dropped", !.parent[n] = Null, !.child[n] = <<>>],
             h.parent[n])

DropNode(h, n) ==
    LET h1 == WeakDrop([h EXCEPT !.status[n] = "dropped", !.parent[n] = Null],
                       h.parent[n])
    IN  DropAll([h1 EXCEPT !.child[n] = <<>>], h.child[n])

\* variant: outstanding Weak handles hold the Node back
RcDropWaitsForWeak(h, n) ==
    LET h1 == [h EXCEPT !.strong[n] = @ - 1]
    IN  IF h1.strong[n] = 0 /\ h1.weak[n] = 0 THEN DropNode(h1, n) ELSE h1

RcDrop(h, n) ==
    LET h1 == [h EXCEPT !.strong[n] = @ - 1]
    IN  IF h1.strong[n] = 0 THEN DropNode(h1, n) ELSE h1

DropAll(h, kids) ==
    IF kids = <<>> THEN h ELSE DropAll(RcDrop(h, Head(kids)), Tail(kids))

\* ----------------------------------------------------------- observers
strong_count(n) == strong[n]
weak_count(n) == weak[n]
resolve_parent(n) == WeakUpgrade(Heap, parent[n])

\* ---------------------------------------------------------------- Init
NoOp == [op |-> "none", a |-> Null, b |-> Null, res |-> Null,
         weakPre |-> 0, parentPre |-> Null, again |-> FALSE]

Init ==
    /\ status = [n \in Nodes |-> "free"]
    /\ value = [n \in Nodes |-> 0]
    /\ parent = [n \in Nodes |-> Null]
    /\ child = [n \in Nodes |-> <<>>]
    /\ strong = [n \in Nodes |-> 0]
    /\ weak = [n \in Nodes |-> 0]
    /\ ext = [n \in Nodes |-> 0]
    /\ pc = "start"
    /\ locals = [leaf |-> Null, parent |-> Null]
    /\ out = <<>>
    /\ ops = 0
    /\ last = NoOp

\* ------------------------------------------------------------ operations
SetHeap(h) ==
    /\ status' = h.status
    /\ value' = h.value
    /\ parent' = h.parent
    /\ child' = h.child
    /\ strong' = h.strong
    /\ weak' = h.weak

\* weakPre: weak_count of the second operand before the operation;
\* parentPre: the first operand's parent cell before the operation;
\* again: a set_parent (an observe) that directly follows a set_parent (an
\* observe) of the same node
Record(name, x, y, r) ==
    last' = [op |-> name, a |-> x, b |-> y, res |-> r,
             weakPre |-> IF y = Null THEN 0 ELSE weak[y],
             parentPre |-> IF x = Null THEN Null ELSE parent[x],
             again |-> /\ name \in {"set_parent", "observe"}
                       /\ last.op = name /\ last.a = x]

Fresh(n) == status[n] = "free" /\ \A m \in Nodes : m < n => status[m] # "free"

\* let n = Rc::new(Node { value: 10, parent: Weak::new(), child: vec![] })
create(n) ==
    /\ Fresh(n)
    /\ SetHeap(RcNew(Heap, n, LeafValue, <<>>))
    /\ ext' = [ext EXCEPT ![n] = 1]
    /\ Record("create", n, Null, Null)

\* let n = Rc::new(Node { value: 15, parent: Weak::new(), child: vec![Rc::clone(&c)] })
create_with_child(n, c) ==
    /\ Fresh(n)
    /\ ext[c] > 0
    /\ SetHeap(RcNew(RcClone(Heap, c), n, ParentValue, <<c>>))
    /\ ext' = [ext EXCEPT ![n] = 1]
    /\ Record("create_with_child", n, c, Null)

\* *c.parent.borrow_mut() = Rc::downgrade(&p)
set_parent(c, p) ==
    /\ ext[c] > 0
    /\ ext[p] > 0
    /\ SetHeap(StoreParent(Heap, c, p))
    /\ UNCHANGED ext
    /\ Record("set_parent", c, p, Null)

\* a binding that owns n goes out of scope
drop_handle(n) ==
    /\ ext[n] > 0
    /\ SetHeap(RcDrop(Heap, n))
    /\ ext' = [ext EXCEPT ![n] = @ - 1]
    /\ Record("drop", n, Null, Null)

\* attach_child(p, c): p.child.borrow_mut().push(Rc::clone(&c)), then
\* *c.parent.borrow_mut() = Rc::downgrade(&p)
attach_child(p, c) ==
    /\ ext[p] > 0
    /\ ext[c] > 0
    /\ SetHeap(StoreParent(PushChild(RcClone(Heap, c), p, c), c, p))
    /\ UNCHANGED ext
    /\ Record("attach_child", p, c, Null)

\* variant: the temporary handle of an upgrade is forgotten, not dropped
upgrade_parent_leaky(c, keep) ==
    LET r == WeakUpgrade(Heap, parent[c])
    IN  /\ ext[c] > 0
        /\ IF r = Null
           THEN UNCHANGED heapVars /\ UNCHANGED ext
           ELSE IF keep
           THEN SetHeap(RcClone(Heap, r)) /\ ext' = [ext EXCEPT ![r] = @ + 1]
           ELSE SetHeap(RcClone(Heap, r)) /\ UNCHANGED ext
        /\ Record("resolve_parent", c, Null, r)

\* variant: a kept handle that the strong counter does not know of
upgrade_parent_uncounted(c, keep) ==
    LET r == WeakUpgrade(Heap, parent[c])
    IN  /\ ext[c] > 0
        /\ IF r = Null
           THEN UNCHANGED heapVars /\ UNCHANGED ext
           ELSE IF keep
           THEN UNCHANGED heapVars /\ ext' = [ext EXCEPT ![r] = @ + 1]
           ELSE UNCHANGED heapVars /\ UNCHANGED ext
        /\ Record("resolve_parent", c, Null, r)

\* c.parent.borrow().upgrade(): a present result is one more owning handle,
\* kept by the caller or dropped at the end of the statement
upgrade_parent(c, keep) ==
    LET r == WeakUpgrade(Heap, parent[c])
    IN  /\ ext[c] > 0
        /\ IF r = Null
           THEN UNCHANGED heapVars /\ UNCHANGED ext
           ELSE IF keep
           THEN SetHeap(RcClone(Heap, r)) /\ ext' = [ext EXCEPT ![r] = @ + 1]
           ELSE SetHeap(RcDrop(RcClone(Heap, r), r)) /\ UNCHANGED ext
        /\ Record("resolve_parent", c, Null, r)

\* variant: the count is read through a handle that is cloned and forgotten
observe_leaky(n) ==
    /\ ext[n] > 0
    /\ SetHeap(RcClone(Heap, n))
    /\ UNCHANGED ext
    /\ Record("observe", n, Null, <<strong_count(n), weak_count(n)>>)

\* Rc::strong_count(&n); Rc::weak_count(&n)
observe(n) ==
    /\ ext[n] > 0
    /\ UNCHANGED <<heapVars, ext>>
    /\ Record("observe", n, Null, <<strong_count(n), weak_count(n)>>)

\* ------------------------------------------------- any client of Node
ClientStep ==
    /\ pc \in {"start", "client"}
    /\ ops < MaxOps
    /\ ops' = ops + 1
    /\ pc' = "client"
    /\ UNCHANGED <<locals, out, notTree>>

NewLeaf == ClientStep /\ \E n \in Nodes : create(n)
NewParent == ClientStep /\ \E n, c \in Nodes : create_with_child(n, c)
SetParent == ClientStep /\ \E c, p \in Nodes : set_parent(c, p)
AttachChild == ClientStep /\ \E p, c \in Nodes : attach_child(p, c)
ResolveParent == ClientStep /\ \E c \in Nodes, keep \in BOOLEAN : upgrade_parent(c, keep)
DropHandle == ClientStep /\ \E n \in Nodes : drop_handle(n)
Observe == ClientStep /\ \E n \in Nodes : observe(n)

\* ------------------------------------------------------------ fn main()
\* println!("strong count = {}", ...); println!("weak count = {}", ...)
PrintCounts(n) == <<strong_count(n), weak_count(n)>>

Main13 ==
    /\ pc = "start"
    /\ create(1)
    /\ locals' = [locals EXCEPT !.leaf = 1]
    /\ pc' = "l21"
    /\ UNCHANGED <<out, ops>>
    /\ UNCHANGED notTree

Main21 ==
    /\ pc = "l21"
    /\ out' = out \o PrintCounts(locals.leaf)
    /\ pc' = "l26"
    /\ Record("print", locals.leaf, Null, Null)
    /\ UNCHANGED <<heapVars, ext, locals, ops>>
    /\ UNCHANGED notTree

Main26 ==
    /\ pc = "l26"
    /\ create_with_child(2, locals.leaf)
    /\ locals' = [locals EXCEPT !.parent = 2]
    /\ pc' = "l32"
    /\ UNCHANGED <<out, ops>>
    /\ UNCHANGED notTree

Main32 ==
    /\ pc = "l32"
    /\ set_parent(locals.leaf, locals.parent)
    /\ pc' = "l36"
    /\ UNCHANGED <<locals, out, ops>>
    /\ UNCHANGED notTree

Main36 ==
    /\ pc = "l36"
    /\ out' = out \o PrintCounts(locals.leaf) \o PrintCounts(locals.parent)
    /\ pc' = "l41"
    /\ Record("print", locals.leaf, locals.parent, Null)
    /\ UNCHANGED <<heapVars, ext, locals, ops>>
    /\ UNCHANGED notTree

\* end of the inner block: the binding parent goes out of scope
Main41 ==
    /\ pc = "l41"
    /\ drop_handle(locals.parent)
    /\ locals' = [locals EXCEPT !.parent = Null]
    /\ pc' = "l44"
    /\ UNCHANGED <<out, ops>>
    /\ UNCHANGED notTree

Main44 ==
    /\ pc = "l44"
    /\ out' = out \o PrintCounts(locals.leaf)
    /\ pc' = "l50"
    /\ Record("print", locals.leaf, Null, Null)
    /\ UNCHANGED <<heapVars, ext, locals, ops>>
    /\ UNCHANGED notTree

\* end of main: the binding leaf goes out of scope
Main50 ==
    /\ pc = "l50"
    /\ drop_handle(locals.leaf)
    /\ locals' = [locals EXCEPT !.leaf = Null]
    /\ pc' = "done"
    /\ UNCHANGED <<out, ops>>
    /\ UNCHANGED notTree

Next ==
    \/ NewLeaf
    \/ NewParent
    \/ SetParent
    \/ AttachChild
    \/ ResolveParent
    \/ DropHandle
    \/ Observe
    \/ Main13
    \/ Main21
    \/ Main26
    \/ Main32
    \/ Main36
    \/ Main41
    \/ Main44
    \/ Main50

\* ------------------------------------------- what the handles add up to
Live(n) == status[n] = "live"

\* slots of live nodes' child lists that hold n
SlotCount(n) ==
    LET Slots == UNION {{<<m, i>> : i \in DOMAIN child[m]} : m \in {k \in Nodes : Live(k)}}
    IN  Cardinality({s \in Slots : child[s[1]][s[2]] = n})

\* owning references to n: bindings outside the tree plus child-list slots
OwningRefs(n) == ext[n] + SlotCount(n)

\* live nodes whose parent cell points at n
BackRefs(n) == Cardinality({m \in Nodes : Live(m) /\ parent[m] = n})

\* the owning edges m -> k: k sits in a slot of m's child list
OwningEdges(ch) ==
    {e \in Nodes \X Nodes : \E i \in DOMAIN ch[e[1]] : ch[e[1]][i] = e[2]}

RECURSIVE ReachFrom(_, _)
ReachFrom(E, S) ==
    LET S2 == S \cup {k \in Nodes : \E m \in S : <<m, k>> \in E}
    IN  IF S2 = S THEN S ELSE ReachFrom(E, S2)

\* nodes reachable from n through one or more owning edges
Descendants(ch, n) ==
    ReachFrom(OwningEdges(ch), {k \in Nodes : <<n, k>> \in OwningEdges(ch)})

Acyclic(ch) == \A n \in Nodes : n \notin Descendants(ch, n)

\* ------------------------------------------------------------ properties

\* C1 as stated: attach_child(parent, child) on two live nodes raises
\* strong_count(child) by one and weak_count(parent) by one and leaves
\* strong_count(parent) as it was.
C1_AttachCountsAsStated ==
    [][(last'.op = "attach_child" /\ last'.a # last'.b) =>
          /\ strong'[last'.b] = strong[last'.b] + 1
          /\ weak'[last'.a] = weak[last'.a] + 1
          /\ strong'[last'.a] = strong[last'.a]]_vars

\* C1 amended: attach_child(parent, child) on two live nodes raises
\* strong_count(child) by one, leaves strong_count(parent) as it was, and
\* raises weak_count(parent) by one unless child's parent cell already
\* pointed at parent, in which case weak_count(parent) is unchanged (the
\* assignment drops the Weak it replaces).
C1_AttachCounts ==
    [][(last'.op = "attach_child" /\ last'.a # last'.b) =>
          /\ strong'[last'.b] = strong[last'.b] + 1
          /\ weak'[last'.a] =
                weak[last'.a] + (IF parent[last'.b] = last'.a THEN 0 ELSE 1)
          /\ strong'[last'.a] = strong[last'.a]]_vars

C1_Witness ==
    /\ last.op = "attach_child"
    /\ last.a # last.b
    /\ Live(last.a) /\ Live(last.b)
    /\ last.parentPre # last.a
    /\ weak[last.a] = weak_count(last.a)
    /\ weak_count(last.a) > 0
    /\ strong_count(last.b) > 1

\* C2: once no owning reference to a parent is left while a live child
\* still points back at it, the parent is destroyed and
\* resolve_parent(child) is absent: the child's back-reference (counted in
\* weak_count) does not keep the parent alive.
C2_ParentDiesDespiteBackRef ==
    \A c \in Nodes :
        (Live(c) /\ parent[c] # Null /\ OwningRefs(parent[c]) = 0) =>
            /\ status[parent[c]] = "dropped"
            /\ resolve_parent(c) = Null

C2_Witness ==
    \E c \in Nodes :
        /\ Live(c) /\ parent[c] # Null /\ parent[c] # c
        /\ OwningRefs(parent[c]) = 0
        /\ weak_count(parent[c]) > 0
        /\ last.op = "drop" /\ last.a = parent[c]
        /\ resolve_parent(c) = Null

\* C3: a node is destroyed exactly when its owning-reference count
\* (bindings plus child-list slots) is zero, which is exactly when its
\* strong counter is zero; back-references never enter: a node with
\* weak_count > 0 and no owning reference is destroyed all the same.
C3_DestroyedIffNoOwner ==
    \A n \in Nodes :
        status[n] # "free" =>
            /\ (status[n] = "dropped") <=> (OwningRefs(n) = 0)
            /\ (status[n] = "dropped") <=> (strong_count(n) = 0)

C3_Witness ==
    \E n, m \in Nodes :
        /\ status[n] = "dropped" /\ weak_count(n) > 0 /\ strong_count(n) = 0
        /\ Live(m) /\ weak_count(m) > 0 /\ strong_count(m) > 0

\* C4: the set-parent step adds no owning reference: every strong count,
\* every child list (hence every owning edge), every binding and every
\* node's liveness is as before it.
C4_SetParentAddsNoOwner ==
    [][last'.op = "set_parent" =>
          /\ strong' = strong
          /\ child' = child
          /\ OwningEdges(child') = OwningEdges(child)
          /\ ext' = ext
          /\ status' = status
          /\ (Acyclic(child) => Acyclic(child'))]_vars

\* the parent was set to a node that owns the child
C4_Witness ==
    /\ last.op = "set_parent"
    /\ <<last.b, last.a>> \in OwningEdges(child)
    /\ parent[last.a] = last.b
    /\ weak_count(last.b) = last.weakPre + 1
    /\ Acyclic(child)

\* C5 as stated: after any sequence of create and attach_child operations
\* no node is reachable from itself through child lists.
C5_AcyclicAsStated == Acyclic(child)

\* attach_child(p, c) with p = c or p already below c
ClosesCycle(ch, p, c) == p = c \/ p \in Descendants(ch, c)

\* C5 amended: the owning graph stays acyclic over every operation other
\* than an attach_child(parent, child) whose parent is the child itself or
\* is already reachable from the child through child lists; the structure
\* does not refuse such an attach, and it does close a cycle.
C5_AcyclicUnlessAttachedUpward ==
    [][/\ (child' # child /\ Acyclic(child)
             /\ ~(last'.op = "attach_child" /\ ClosesCycle(child, last'.a, last'.b)))
            => Acyclic(child')
       /\ (last'.op = "attach_child" /\ ClosesCycle(child, last'.a, last'.b))
            => ~Acyclic(child')]_vars

C5_Witness ==
    /\ last.op = "attach_child"
    /\ Acyclic(child)
    /\ \E n \in Nodes : Descendants(child, n) # {} /\ parent[n] # Null
    /\ \E n \in Nodes : Cardinality(Descendants(child, n)) > 1

\* C6: right after attach_child(parent, child), and right after the
\* set-parent step that completes an attach, resolve_parent(child) is
\* present and is parent.
C6_ResolveAfterAttach ==
    /\ last.op = "attach_child" =>
          resolve_parent(last.b) # Null /\ resolve_parent(last.b) = last.a
    /\ last.op = "set_parent" =>
          resolve_parent(last.a) # Null /\ resolve_parent(last.a) = last.b

C6_Witness ==
    /\ last.op = "attach_child"
    /\ last.a # last.b
    /\ last.parentPre \notin {Null, last.a}
    /\ resolve_parent(last.b) = last.a

\* C7, second part: creation has no failure case: whenever a client may act
\* and a box is left to allocate, create is possible.
C7_CreateEnabled ==
    (pc \in {"start", "client"} /\ ops < MaxOps /\ \E n \in Nodes : status[n] = "free")
        => ENABLED NewLeaf

\* C7: a freshly created node, one owning handle kept by its creator, has
\* strong_count 1, weak_count 0, no children and an absent parent.
C7_FreshNode ==
    /\ C7_CreateEnabled
    /\ last.op = "create" =>
        /\ Live(last.a)
        /\ ext[last.a] = 1
        /\ strong_count(last.a) = 1
        /\ weak_count(last.a) = 0
        /\ child[last.a] = <<>>
        /\ parent[last.a] = Null
        /\ resolve_parent(last.a) = Null
        /\ value[last.a] = LeafValue

C7_Witness ==
    /\ last.op = "create"
    /\ last.a > 1
    /\ \E m \in Nodes : m # last.a /\ weak_count(m) > 0 /\ strong_count(m) > 1

\* C8: main prints (strong, weak) = leaf (1,0) after creation; leaf (2,0)
\* and parent (1,1) once parent holds leaf and leaf.parent is set; leaf
\* (1,0) after parent's only binding has gone out of scope.
C8_MainTrace ==
    /\ pc \in {"start", "client", "l21"} => out = <<>>
    /\ pc \in {"l26", "l32", "l36"} => out = <<1, 0>>
    /\ pc \in {"l41", "l44"} => out = <<1, 0, 2, 0, 1, 1>>
    /\ pc \in {"l50", "done"} => out = <<1, 0, 2, 0, 1, 1, 1, 0>>

C8_Witness ==
    /\ pc = "done"
    /\ out = <<1, 0, 2, 0, 1, 1, 1, 0>>
    /\ status = [n \in Nodes |-> IF n \in {1, 2} THEN "dropped" ELSE "free"]

\* C9: for every live node, strong_count is the number of bindings that
\* own it plus the child-list slots of live nodes holding it, and
\* weak_count is the number of live nodes whose parent cell points at it,
\* in every reachable state.
C9_CountsMatchHandles ==
    \A n \in Nodes :
        Live(n) =>
            /\ strong_count(n) = OwningRefs(n)
            /\ weak_count(n) = BackRefs(n)

C9_Witness ==
    \E n \in Nodes :
        /\ Live(n)
        /\ ext[n] > 0
        /\ SlotCount(n) > 0
        /\ BackRefs(n) > 0
        /\ \E m \in Nodes : status[m] = "dropped"

\* C10 as stated, for three different nodes child, P1, P2: after
\* child.parent is set to P1 and then to P2,
\* resolve_parent(child) is P2, weak_count(P2) has gone up by one and
\* weak_count(P1) is what it was before the first set.
C10_LastWriteWinsAsStated ==
    [][(/\ last.op = "set_parent" /\ last'.op = "set_parent"
        /\ last'.a = last.a /\ last'.b # last.b
        /\ last.a \notin {last.b, last'.b}) =>
          /\ resolve_parent(last.a)' = last'.b
          /\ weak'[last'.b] = weak[last'.b] + 1
          /\ weak'[last.b] = last.weakPre]_vars

\* C10 amended: after child.parent is set to P1 and then to a different
\* P2, resolve_parent(child) is P2, weak_count(P2) is one higher than just
\* before the second set, and weak_count(P1) is one lower than just after
\* the first set: that is its value before the first set unless child's
\* parent cell already pointed at P1 then, in which case it is one lower.
\* No other node's weak_count moves in the second set.
C10_LastWriteWins ==
    [][(/\ last.op = "set_parent" /\ last'.op = "set_parent"
        /\ last'.a = last.a /\ last'.b # last.b) =>
          /\ resolve_parent(last.a)' = last'.b
          /\ parent'[last.a] = last'.b
          /\ weak'[last'.b] = weak[last'.b] + 1
          /\ weak'[last.b] = weak[last.b] - 1
          /\ weak'[last.b] =
                last.weakPre - (IF last.parentPre = last.b THEN 1 ELSE 0)
          /\ \A n \in Nodes \ {last.b, last'.b} : weak'[n] = weak[n]]_vars

\* child.parent went P1 then P2, with a third node pointing at P1 as well
C10_Witness ==
    /\ last.op = "set_parent"
    /\ last.again
    /\ last.parentPre \notin {Null, last.a, last.b}
    /\ last.b # last.a
    /\ weak_count(last.parentPre) > 0
    /\ weak_count(last.b) = 1
    /\ resolve_parent(last.a) = last.b

\* C11: resolve_parent has no failure case: for every node a binding owns
\* it has a result, the parent when the parent cell points at a live node
\* and absent when the cell was never set or its node has been destroyed;
\* once the returned handle is released every strong and weak count, every
\* cell and every node's liveness is as before the call (while the handle is
\* kept, only strong_count of the parent is one higher).
C11_ResolveNeverFails ==
    [][/\ \A n \in Nodes :
             ext'[n] > 0 =>
                 resolve_parent(n)' = (IF parent'[n] # Null /\ status'[parent'[n]] = "live"
                                       THEN parent'[n] ELSE Null)
       /\ last'.op = "resolve_parent" =>
             LET c == last'.a
                 r == last'.res
             IN  /\ r = (IF parent[c] # Null /\ Live(parent[c]) THEN parent[c] ELSE Null)
                 /\ ext' = ext =>
                       /\ strong' = strong /\ weak' = weak /\ status' = status
                       /\ parent' = parent /\ child' = child
                 /\ ext' # ext =>
                       /\ r # Null
                       /\ ext' = [ext EXCEPT ![r] = @ + 1]
                       /\ strong' = [strong EXCEPT ![r] = @ + 1]
                       /\ weak' = weak /\ status' = status
                       /\ parent' = parent /\ child' = child]_vars

\* resolve_parent answered absent for a parent that has been destroyed
C11_Witness ==
    /\ last.op = "resolve_parent"
    /\ last.res = Null
    /\ last.parentPre # Null
    /\ status[last.parentPre] = "dropped"
    /\ weak[last.parentPre] > 0

\* C14: strong_count and weak_count are observers: a call changes no
\* count, no child list, no parent cell, no binding and no liveness, it
\* returns the counters as they are, and a call that directly follows a call
\* on the same node returns the same values.
C14_CountsArePure ==
    [][last'.op \in {"observe", "print"} =>
          /\ strong' = strong /\ weak' = weak /\ status' = status
          /\ parent' = parent /\ child' = child /\ ext' = ext /\ value' = value
          /\ last'.op = "observe" =>
                /\ last'.res = <<strong[last'.a], weak[last'.a]>>
                /\ (last.op = "observe" /\ last.a = last'.a) => last'.res = last.res]_vars

\* two calls in a row on a node with both counts above zero
C14_Witness ==
    /\ last.op = "observe"
    /\ last.again
    /\ last.res[1] > 1 /\ last.res[2] > 0
    /\ ops > 3

\* ------------------------------------- a kept result of resolve_parent
TempInit == temp = [n \in Nodes |-> 0]

TempStep ==
    /\ pc \in {"start", "client"}
    /\ ops < MaxOps
    /\ ops' = ops + 1
    /\ pc' = "client"
    /\ UNCHANGED <<locals, out, notTemp>>

\* let p = c.parent.borrow().upgrade(): the caller keeps the result
HoldParent ==
    /\ TempStep
    /\ \E c \in Nodes :
          /\ upgrade_parent(c, TRUE)
          /\ temp' = IF resolve_parent(c) = Null THEN temp
                     ELSE [temp EXCEPT ![resolve_parent(c)] = @ + 1]

\* a kept result of resolve_parent goes out of scope
ReleaseTemp ==
    /\ TempStep
    /\ \E n \in Nodes :
          /\ temp[n] > 0
          /\ drop_handle(n)
          /\ temp' = [temp EXCEPT ![n] = @ - 1]

\* any other binding that owns a node goes out of scope
DropOther ==
    /\ TempStep
    /\ \E n \in Nodes :
          /\ ext[n] > temp[n]
          /\ drop_handle(n)
          /\ UNCHANGED temp

TempNext ==
    \/ NewLeaf
    \/ NewParent
    \/ SetParent
    \/ AttachChild
    \/ HoldParent
    \/ ReleaseTemp
    \/ DropOther

\* C24: a kept result of resolve_parent is one more owning handle: the call
\* raises strong_count of the parent by exactly one (a call whose result is
\* released leaves it as it was), the count stays that of the other owners
\* plus the kept results, a parent with a kept result is live however many
\* of its other owners are dropped, and such a parent is destroyed only by
\* the release of the last kept result, after every other owner is gone.
C24_TempHandleKeepsParent ==
    [][/\ \A n \in Nodes :
             /\ temp'[n] <= ext'[n]
             /\ temp'[n] > 0 =>
                   /\ status'[n] = "live"
                   /\ strong'[n] - temp'[n] =
                         (ext'[n] - temp'[n])
                         + Cardinality(UNION {{<<m, i>> : i \in {j \in DOMAIN child'[m] :
                                                                    child'[m][j] = n}} :
                                              m \in {k \in Nodes : status'[k] = "live"}})
             /\ (temp[n] > 0 /\ status'[n] = "dropped") =>
                   /\ temp[n] = 1 /\ temp'[n] = 0
                   /\ ext[n] = 1 /\ strong[n] = 1
                   /\ last'.op = "drop" /\ last'.a = n
       /\ (last'.op = "resolve_parent" /\ last'.res # Null) =>
             /\ temp' = [temp EXCEPT ![last'.res] = @ + 1]
             /\ strong' = [strong EXCEPT ![last'.res] = @ + 1]
             /\ strong'[last'.res] =
                   RcDrop(RcClone(Heap, last'.res), last'.res).strong[last'.res] + 1
       /\ (last'.op = "drop" /\ temp' = temp /\ temp[last'.a] > 0) =>
             /\ status'[last'.a] = "live"
             /\ strong'[last'.a] = strong[last'.a] - 1]_vars

\* every other owner of the parent is gone and the kept result alone keeps
\* it alive, with a live child still pointing at it
C24_Witness ==
    /\ last.op = "drop"
    /\ temp[last.a] = 1 /\ ext[last.a] = 1
    /\ Live(last.a) /\ strong_count(last.a) = 1 /\ SlotCount(last.a) = 0
    /\ \E c \in Nodes : Live(c) /\ c # last.a /\ resolve_parent(c) = last.a

\* ======================================================================
\* Runtime-checked cells: RefCell<Weak<Node>> and RefCell<Vec<Rc<Node>>> of
\* Node (tree_fix_ref_cycles) and RefCell<Vec<String>> of MockMessenger
\* (ch15-smart-pointers).  Only the access protocol of the node cells is
\* followed here; what the node cells hold is the tree model's.
\* ======================================================================
MaxCellOps == 4

Messages == {"Email quota exceeded", "Email quota at 90%", "Email quota is low"}

MsgsCell == <<0, "msgs">>
Cells == (Nodes \X {"parent", "child"}) \cup {MsgsCell}

\* borrow : the cell's borrow flag, 0 unused, n > 0 shared guards, -1 one
\*          exclusive guard
\* held   : exclusive guards the caller keeps in a binding (let g = ..)
\* cpc    : the operation in progress and the steps it has still to take
\* msgs   : MockMessenger.msgs
\* cops   : operations started

Idle == [op |-> "idle", todo |-> <<>>]

CellsInit ==
    /\ borrow = [k \in Cells |-> 0]
    /\ held = [k \in Cells |-> 0]
    /\ cpc = Idle
    /\ panicked = FALSE
    /\ msgs = <<>>
    /\ cops = 0

\* variant: the second exclusive request is granted
CanBorrowMutUnchecked(f) == TRUE

\* RefCell::borrow_mut succeeds only on an unused cell, and panics otherwise
CanBorrowMut(f) == f = 0

\* RefCell::borrow succeeds unless an exclusive guard is out
CanBorrow(f) == f >= 0

\* variant: the guard of the assignment is never released
SetParentStepsNoRelease(c, p) ==
    << <<"eval", <<c, "parent">>, "">>,
       <<"borrow_mut", <<c, "parent">>, "">>,
       <<"use", <<c, "parent">>, "">> >>

\* *c.parent.borrow_mut() = Rc::downgrade(&p): the value is evaluated
\* first, then the cell is borrowed, written, and the guard dropped at the
\* end of the statement
SetParentSteps(c, p) ==
    << <<"eval", <<c, "parent">>, "">>,
       <<"borrow_mut", <<c, "parent">>, "">>,
       <<"use", <<c, "parent">>, "">>,
       <<"release_mut", <<c, "parent">>, "">> >>

\* c.parent.borrow().upgrade()
ResolveParentSteps(c) ==
    << <<"borrow", <<c, "parent">>, "">>,
       <<"use", <<c, "parent">>, "">>,
       <<"release", <<c, "parent">>, "">> >>

\* p.child.borrow_mut().push(Rc::clone(&c)), then the assignment above
AttachChildSteps(p, c) ==
    << <<"eval", <<p, "child">>, "">>,
       <<"borrow_mut", <<p, "child">>, "">>,
       <<"use", <<p, "child">>, "">>,
       <<"release_mut", <<p, "child">>, "">> >> \o SetParentSteps(c, p)

\* Rc::new(Node {..}), Rc::strong_count, Rc::weak_count: no cell is borrowed
NoCellSteps(n) ==
    << <<"eval", <<n, "parent">>, "">> >>

\* self.msgs.borrow_mut().push(msg.to_string())
SendSteps(msg) ==
    << <<"borrow_mut", MsgsCell, "">>,
       <<"push", MsgsCell, msg>>,
       <<"release_mut", MsgsCell, "">> >>

\* mock.msgs.borrow().len()
LenSteps ==
    << <<"borrow", MsgsCell, "">>,
       <<"use", MsgsCell, "">>,
       <<"release", MsgsCell, "">> >>

\* let mut one_borrow = k.borrow_mut(): the guard stays in the binding
HoldSteps(k) ==
    << <<"borrow_mut", k, "">>,
       <<"keep", k, "">> >>

Begin(name, steps) ==
    /\ cpc = Idle
    /\ ~panicked
    /\ cops < MaxCellOps
    /\ cops' = cops + 1
    /\ cpc' = [op |-> name, todo |-> steps]
    /\ UNCHANGED <<borrow, held, panicked, msgs, notCells>>

CallCreate == \E n \in Nodes : Begin("create", NoCellSteps(n))
CallCounts == \E n \in Nodes : Begin("counts", NoCellSteps(n))
CallSetParent == \E c, p \in Nodes : Begin("set_parent", SetParentSteps(c, p))
CallResolveParent == \E c \in Nodes : Begin("resolve_parent", ResolveParentSteps(c))
CallAttachChild == \E p, c \in Nodes : Begin("attach_child", AttachChildSteps(p, c))
CallSend == \E m \in Messages : Begin("send", SendSteps(m))
CallLen == Begin("len", LenSteps)
CallHold == \E k \in Cells : Begin("hold", HoldSteps(k))

Step == Head(cpc.todo)
Rest == IF Len(cpc.todo) = 1 THEN Idle ELSE [cpc EXCEPT !.todo = Tail(@)]
Running == cpc # Idle /\ ~panicked

\* a request for exclusive access: granted, or the program dies here
StepBorrowMut ==
    /\ Running
    /\ Step[1] = "borrow_mut"
    /\ IF CanBorrowMut(borrow[Step[2]])
       THEN /\ borrow' = [borrow EXCEPT ![Step[2]] = -1]
            /\ cpc' = Rest
            /\ UNCHANGED panicked
       ELSE /\ panicked' = TRUE
            /\ UNCHANGED <<borrow, cpc>>
    /\ UNCHANGED <<held, msgs, cops, notCells>>

\* a request for shared access
StepBorrow ==
    /\ Running
    /\ Step[1] = "borrow"
    /\ IF CanBorrow(borrow[Step[2]])
       THEN /\ borrow' = [borrow EXCEPT ![Step[2]] = @ + 1]
            /\ cpc' = Rest
            /\ UNCHANGED panicked
       ELSE /\ panicked' = TRUE
            /\ UNCHANGED <<borrow, cpc>>
    /\ UNCHANGED <<held, msgs, cops, notCells>>

\* evaluation outside a cell, or a read or write through the guard
StepUse ==
    /\ Running
    /\ Step[1] \in {"eval", "use"}
    /\ cpc' = Rest
    /\ UNCHANGED <<borrow, held, panicked, msgs, cops, notCells>>

\* Vec::push through the exclusive guard
StepPush ==
    /\ Running
    /\ Step[1] = "push"
    /\ msgs' = Append(msgs, Step[3])
    /\ cpc' = Rest
    /\ UNCHANGED <<borrow, held, panicked, cops, notCells>>

\* the temporary guard is dropped at the end of the statement
StepRelease ==
    /\ Running
    /\ Step[1] \in {"release", "release_mut"}
    /\ borrow' = [borrow EXCEPT ![Step[2]] = IF Step[1] = "release" THEN @ - 1 ELSE 0]
    /\ cpc' = Rest
    /\ UNCHANGED <<held, panicked, msgs, cops, notCells>>

\* the guard moves into the caller's binding
StepKeep ==
    /\ Running
    /\ Step[1] = "keep"
    /\ held' = [held EXCEPT ![Step[2]] = @ + 1]
    /\ cpc' = Rest
    /\ UNCHANGED <<borrow, panicked, msgs, cops, notCells>>

\* the caller's binding goes out of scope
DropGuard ==
    /\ cpc = Idle
    /\ ~panicked
    /\ \E k \in Cells :
          /\ held[k] > 0
          /\ held' = [held EXCEPT ![k] = @ - 1]
          /\ borrow' = [borrow EXCEPT ![k] = 0]
    /\ UNCHANGED <<cpc, panicked, msgs, cops, notCells>>

CellsNext ==
    \/ CallCreate
    \/ CallCounts
    \/ CallSetParent
    \/ CallResolveParent
    \/ CallAttachChild
    \/ CallSend
    \/ CallLen
    \/ CallHold
    \/ StepBorrowMut
    \/ StepBorrow
    \/ StepUse
    \/ StepPush
    \/ StepRelease
    \/ StepKeep
    \/ DropGuard

\* C12: a request for exclusive access to a cell (a node's parent cell, a
\* node's child cell, the mock messenger's message list) whose exclusive
\* guard is still out is never granted: the program dies at that request,
\* with every flag, guard and the message list as they were, and takes no
\* further step; no cell ever has two exclusive guards.
C12_SecondBorrowMutPanics ==
    [][/\ ~panicked
       /\ (cpc # Idle /\ Step[1] = "borrow_mut" /\ borrow[Step[2]] < 0) =>
             /\ panicked'
             /\ UNCHANGED <<borrow, held, cpc, msgs>>
       /\ \A k \in Cells : held'[k] <= 1 /\ borrow'[k] >= -1
       /\ panicked' =>
             /\ cpc # Idle
             /\ Step[1] \in {"borrow_mut", "borrow"}
             /\ borrow[Step[2]] # 0]_vars

\* send dies at its borrow_mut while the caller keeps an exclusive guard of
\* the message list
C12_Witness ==
    /\ panicked
    /\ cpc.op = "send"
    /\ Step = <<"borrow_mut", MsgsCell, "">>
    /\ held[MsgsCell] = 1
    /\ msgs # <<>>

\* guards taken by the operation in progress
OpGuards == {k \in Cells : borrow[k] # 0 /\ held[k] = 0}

\* C13: an operation has at most one guard out at any moment, on one cell;
\* between operations no guard of an operation is out; and as long as the
\* caller keeps no guard of its own, no sequence of operations dies.
C13_OneCellAtATime ==
    /\ Cardinality(OpGuards) <= 1
    /\ cpc = Idle => OpGuards = {}
    /\ (\A k \in Cells : held[k] = 0) => ~panicked
    /\ \A k \in OpGuards :
          /\ cpc.op \in {"set_parent", "resolve_parent", "attach_child"} => k # MsgsCell
          /\ cpc.op \in {"create", "counts"} => FALSE

\* attach_child is about to release the child's parent cell, the third
\* operation in a row without a guard kept by the caller
C13_Witness ==
    /\ cpc.op = "attach_child"
    /\ Len(cpc.todo) = 1
    /\ OpGuards = {Step[2]}
    /\ Step[2][2] = "parent"
    /\ cops >= 3
    /\ \A k \in Cells : held[k] = 0
    /\ ~panicked

\* ======================================================================
\* Channel, Mutex and Arc<Mutex> demos of ch16-concurrency/src/main.rs,
\* lines 76-167, with the spawned threads interleaved with main.
\* ======================================================================
NumThreads == 10
MutexStart == 23
Data == <<1, 2, 3>>
None == -1

Workers == 1..NumThreads

\* mpc, apc, bpc, wpc : where main, the two sending threads and the counter
\*                      threads are
\* chan, senders      : the channel's queue and its live transmitters
\* val, got           : what line 91 and the loop of line 110 received
\* mtx                : the Mutex of line 124
\* counter, holder    : the Mutex of line 144 and the thread that has it locked
\* tmp                : a counter thread's read of the value it increments
\* joined             : handles main has joined
\* result             : the value line 167 prints

ConcInit ==
    /\ mpc = "l76"
    /\ apc = "idle"
    /\ bpc = "idle"
    /\ bidx = 0
    /\ wpc = [t \in Workers |-> "idle"]
    /\ chan = <<>>
    /\ senders = {}
    /\ val = None
    /\ got = <<>>
    /\ mtx = None
    /\ counter = None
    /\ holder = None
    /\ tmp = [t \in Workers |-> None]
    /\ joined = 0
    /\ result = None

\* variant: the iteration ends as soon as the queue is empty
DisconnectedEarly(s, q) == q = <<>>

\* Receiver::recv fails (the iteration ends) when the queue is empty and
\* every Sender has been dropped
Disconnected(s, q) == s = {} /\ q = <<>>

\* variant: a lock that does not wait
CanLockUnguarded(h) == TRUE

\* Mutex::lock returns when no other thread holds the guard
CanLock(h) == h = None

\* ---- the channel, lines 76-112
\* let (tx, rx) = mpsc::channel()
Main76 ==
    /\ mpc = "l76"
    /\ senders' = {"tx"}
    /\ mpc' = "l80"
    /\ UNCHANGED <<apc, bpc, bidx, wpc, chan, val, got, mtx, counter, holder, tmp, joined, result, notConc>>

\* let tx1 = tx.clone()
Main80 ==
    /\ mpc = "l80"
    /\ senders' = senders \cup {"tx1"}
    /\ mpc' = "l83"
    /\ UNCHANGED <<apc, bpc, bidx, wpc, chan, val, got, mtx, counter, holder, tmp, joined, result, notConc>>

\* thread::spawn(move || { tx.send(1).unwrap(); })
Main83 ==
    /\ mpc = "l83"
    /\ apc' = "send"
    /\ mpc' = "l91"
    /\ UNCHANGED <<bpc, bidx, wpc, chan, senders, val, got, mtx, counter, holder, tmp, joined, result, notConc>>

\* tx.send(1).unwrap()
ASend ==
    /\ apc = "send"
    /\ chan' = Append(chan, 1)
    /\ apc' = "drop"
    /\ UNCHANGED <<mpc, bpc, bidx, wpc, senders, val, got, mtx, counter, holder, tmp, joined, result, notConc>>

\* the closure ends: tx is dropped
ADrop ==
    /\ apc = "drop"
    /\ senders' = senders \ {"tx"}
    /\ apc' = "done"
    /\ UNCHANGED <<mpc, bpc, bidx, wpc, chan, val, got, mtx, counter, holder, tmp, joined, result, notConc>>

\* let val = rx.recv().unwrap(): blocks while the queue is empty
Main91 ==
    /\ mpc = "l91"
    /\ chan # <<>>
    /\ val' = Head(chan)
    /\ chan' = Tail(chan)
    /\ mpc' = "l100"
    /\ UNCHANGED <<apc, bpc, bidx, wpc, senders, got, mtx, counter, holder, tmp, joined, result, notConc>>

\* let data = vec![1, 2, 3]; thread::spawn(move || { for val in data {..} })
Main100 ==
    /\ mpc = "l100"
    /\ bpc' = "send"
    /\ bidx' = 1
    /\ mpc' = "l110"
    /\ UNCHANGED <<apc, wpc, chan, senders, val, got, mtx, counter, holder, tmp, joined, result, notConc>>

\* tx1.send(val).unwrap(), for each val in data
BSend ==
    /\ bpc = "send"
    /\ chan' = Append(chan, Data[bidx])
    /\ bidx' = bidx + 1
    /\ bpc' = IF bidx = Len(Data) THEN "drop" ELSE "send"
    /\ UNCHANGED <<mpc, apc, wpc, senders, val, got, mtx, counter, holder, tmp, joined, result, notConc>>

\* the closure ends: tx1 is dropped
BDrop ==
    /\ bpc = "drop"
    /\ senders' = senders \ {"tx1"}
    /\ bpc' = "done"
    /\ UNCHANGED <<mpc, apc, bidx, wpc, chan, val, got, mtx, counter, holder, tmp, joined, result, notConc>>

\* for recvd in rx: one value is taken from the queue
Main110Next ==
    /\ mpc = "l110"
    /\ chan # <<>>
    /\ got' = Append(got, Head(chan))
    /\ chan' = Tail(chan)
    /\ UNCHANGED <<mpc, apc, bpc, bidx, wpc, senders, val, mtx, counter, holder, tmp, joined, result, notConc>>

\* for recvd in rx: the iteration ends
Main110End ==
    /\ mpc = "l110"
    /\ Disconnected(senders, chan)
    /\ mpc' = "l124"
    /\ UNCHANGED <<apc, bpc, bidx, wpc, chan, senders, val, got, mtx, counter, holder, tmp, joined, result, notConc>>

\* ---- the Mutex, lines 124-132
\* let m = Mutex::new(23)
Main124 ==
    /\ mpc = "l124"
    /\ mtx' = MutexStart
    /\ mpc' = "l128"
    /\ UNCHANGED <<apc, bpc, bidx, wpc, chan, senders, val, got, counter, holder, tmp, joined, result, notConc>>

\* { let mut num = m.lock().unwrap(); *num += 1; }
Main128 ==
    /\ mpc = "l128"
    /\ mtx' = mtx + 1
    /\ mpc' = "l144"
    /\ UNCHANGED <<apc, bpc, bidx, wpc, chan, senders, val, got, counter, holder, tmp, joined, result, notConc>>

\* ---- the shared counter, lines 144-167
\* handles.len()
Spawned == Cardinality({t \in Workers : wpc[t] # "idle"})

\* let counter = Arc::new(Mutex::new(0)); let mut handles = vec![]
Main144 ==
    /\ mpc = "l144"
    /\ counter' = 0
    /\ mpc' = "l147"
    /\ UNCHANGED <<apc, bpc, bidx, wpc, chan, senders, val, got, mtx, holder, tmp, joined, result, notConc>>

\* for _ in 0..10 { let counter = Arc::clone(&counter);
\*                  handles.push(thread::spawn(move || {..})) }
Main147 ==
    /\ mpc = "l147"
    /\ wpc' = [wpc EXCEPT ![Spawned + 1] = "lock"]
    /\ mpc' = IF Spawned + 1 = NumThreads THEN "l162" ELSE "l147"
    /\ UNCHANGED <<apc, bpc, bidx, chan, senders, val, got, mtx, counter, holder, tmp, joined, result, notConc>>

\* counter.lock().unwrap()
WLock(t) ==
    /\ wpc[t] = "lock"
    /\ CanLock(holder)
    /\ holder' = t
    /\ wpc' = [wpc EXCEPT ![t] = "load"]
    /\ UNCHANGED <<mpc, apc, bpc, bidx, chan, senders, val, got, mtx, counter, tmp, joined, result, notConc>>

\* *guard += 1, the read
WLoad(t) ==
    /\ wpc[t] = "load"
    /\ tmp' = [tmp EXCEPT ![t] = counter]
    /\ wpc' = [wpc EXCEPT ![t] = "store"]
    /\ UNCHANGED <<mpc, apc, bpc, bidx, chan, senders, val, got, mtx, counter, holder, joined, result, notConc>>

\* *guard += 1, the write
WStore(t) ==
    /\ wpc[t] = "store"
    /\ counter' = tmp[t] + 1
    /\ tmp' = [tmp EXCEPT ![t] = None]
    /\ wpc' = [wpc EXCEPT ![t] = "unlock"]
    /\ UNCHANGED <<mpc, apc, bpc, bidx, chan, senders, val, got, mtx, holder, joined, result, notConc>>

\* the temporary MutexGuard is dropped at the end of the statement
WUnlock(t) ==
    /\ wpc[t] = "unlock"
    /\ holder' = None
    /\ wpc' = [wpc EXCEPT ![t] = "done"]
    /\ UNCHANGED <<mpc, apc, bpc, bidx, chan, senders, val, got, mtx, counter, tmp, joined, result, notConc>>

WorkerLock == \E t \in Workers : WLock(t)
WorkerLoad == \E t \in Workers : WLoad(t)
WorkerStore == \E t \in Workers : WStore(t)
WorkerUnlock == \E t \in Workers : WUnlock(t)

\* for handle in handles { handle.join().unwrap(); }
Main162 ==
    /\ mpc = "l162"
    /\ joined < NumThreads
    /\ wpc[joined + 1] = "done"
    /\ joined' = joined + 1
    /\ UNCHANGED <<mpc, apc, bpc, bidx, wpc, chan, senders, val, got, mtx, counter, holder, tmp, result, notConc>>

Main162End ==
    /\ mpc = "l162"
    /\ joined = NumThreads
    /\ mpc' = "l167"
    /\ UNCHANGED <<apc, bpc, bidx, wpc, chan, senders, val, got, mtx, counter, holder, tmp, joined, result, notConc>>

\* println!("Result: {}", *counter.lock().unwrap())
Main167 ==
    /\ mpc = "l167"
    /\ CanLock(holder)
    /\ result' = counter
    /\ mpc' = "done"
    /\ UNCHANGED <<apc, bpc, bidx, wpc, chan, senders, val, got, mtx, counter, holder, tmp, joined, notConc>>

ConcNext ==
    \/ Main76
    \/ Main80
    \/ Main83
    \/ ASend
    \/ ADrop
    \/ Main91
    \/ Main100
    \/ BSend
    \/ BDrop
    \/ Main110Next
    \/ Main110End
    \/ Main124
    \/ Main128
    \/ Main144
    \/ Main147
    \/ WorkerLock
    \/ WorkerLoad
    \/ WorkerStore
    \/ WorkerUnlock
    \/ Main162
    \/ Main162End
    \/ Main167

InSection == {t \in Workers : wpc[t] \in {"load", "store", "unlock"}}

\* C15: at most one thread is ever between its lock and its unlock, and the
\* value main reads after joining the ten threads is exactly 10, each
\* thread having added one.
C15_CounterIsTen ==
    /\ Cardinality(InSection) <= 1
    /\ InSection # {} => InSection = {holder}
    /\ counter # None =>
          counter = Cardinality({t \in Workers : wpc[t] \in {"unlock", "done"}})
    /\ mpc = "l167" => counter = NumThreads /\ holder = None
    /\ mpc = "done" <=> result # None
    /\ mpc = "done" => result = NumThreads

\* main has printed the result after all ten threads ran
C15_Witness ==
    /\ mpc = "done"
    /\ result = NumThreads
    /\ joined = NumThreads
    /\ \A t \in Workers : wpc[t] = "done"

AfterLoop == mpc \notin {"l76", "l80", "l83", "l91", "l100", "l110"}

\* C16: the value received at line 91 is the 1 sent on tx; the loop over rx
\* then receives 1, 2, 3 sent on tx1, each once and in order; the loop has
\* not ended while a transmitter is alive or a value is queued, and it can
\* end as soon as both transmitters are dropped and the queue is empty.
C16_LoopEndsWhenSendersDropped ==
    /\ mpc \notin {"l76", "l80", "l83", "l91"} => val = 1
    /\ \E n \in 0..Len(Data) : got = SubSeq(Data, 1, n)
    /\ got # <<>> => val = 1
    /\ AfterLoop =>
          /\ got = Data
          /\ senders = {}
          /\ chan = <<>>
          /\ apc = "done" /\ bpc = "done"
    /\ (mpc = "l110" /\ senders = {} /\ chan = <<>>) => ENABLED Main110End
    /\ (mpc = "l110" /\ (senders # {} \/ chan # <<>>)) => ~ENABLED Main110End

\* the loop has just ended with everything delivered
C16_Witness ==
    /\ mpc = "l124"
    /\ val = 1
    /\ got = <<1, 2, 3>>
    /\ senders = {}

\* ======================================================================
\* blog::Post and its states (ch18-oop-patterns/src/main.rs, lines 225-345)
\* ======================================================================
MaxPostOps == 5

Texts == {"", "Hello, this is my first blog post!", " More."}

\* post  : Post { state, content }
\* calls : the methods called so far, with the text of add_text
\* shown : what the last call of content() returned

\* Post::new()
PostInit ==
    /\ post = [state |-> "Draft", content |-> ""]
    /\ calls = <<>>
    /\ shown = ""

\* impl State for Draft / PendingReview / Published: request_review
State_request_review(s) ==
    CASE s = "Draft" -> "PendingReview"
      [] s = "PendingReview" -> s
      [] s = "Published" -> s

\* variant: a draft can be approved
State_approve_unreviewed(s) ==
    CASE s = "Draft" -> "Published"
      [] s = "PendingReview" -> "Published"
      [] s = "Published" -> s

\* impl State for Draft / PendingReview / Published: approve
State_approve(s) ==
    CASE s = "Draft" -> s
      [] s = "PendingReview" -> "Published"
      [] s = "Published" -> s

\* variant: every state shows the content
State_content_shown(s, p) == p.content

\* State::content: the default of the trait, overridden by Published
State_content(s, p) ==
    CASE s = "Draft" -> ""
      [] s = "PendingReview" -> ""
      [] s = "Published" -> p.content

PostCall(name, text) ==
    /\ Len(calls) < MaxPostOps
    /\ calls' = Append(calls, <<name, text>>)
    /\ UNCHANGED notPost

\* self.content.push_str(text)
add_text ==
    \E text \in Texts :
        /\ PostCall("add_text", text)
        /\ post' = [post EXCEPT !.content = @ \o text]
        /\ UNCHANGED shown

\* if let Some(s) = self.state.take() { self.state = Some(s.request_review()) }
request_review ==
    /\ PostCall("request_review", "")
    /\ post' = [post EXCEPT !.state = State_request_review(@)]
    /\ UNCHANGED shown

\* if let Some(s) = self.state.take() { self.state = Some(s.approve()) }
approve ==
    /\ PostCall("approve", "")
    /\ post' = [post EXCEPT !.state = State_approve(@)]
    /\ UNCHANGED shown

\* self.state.as_ref().unwrap().content(self)
content ==
    /\ PostCall("content", "")
    /\ shown' = State_content(post.state, post)
    /\ UNCHANGED post

PostNext ==
    \/ add_text
    \/ request_review
    \/ approve
    \/ content

LastCall == calls[Len(calls)][1]

\* C17: the state only ever moves Draft -> PendingReview (by request_review)
\* and PendingReview -> Published (by approve); request_review in any other
\* state, approve in any other state, add_text and content leave the state
\* as it is; a Published post was reviewed and then approved, and stays
\* Published.
C17_OnlyForward ==
    [][/\ post'.state # post.state =>
             \/ /\ post.state = "Draft" /\ post'.state = "PendingReview"
                /\ calls'[Len(calls')][1] = "request_review"
             \/ /\ post.state = "PendingReview" /\ post'.state = "Published"
                /\ calls'[Len(calls')][1] = "approve"
       /\ (calls'[Len(calls')][1] = "request_review" /\ post.state = "Draft") =>
             post'.state = "PendingReview"
       /\ (calls'[Len(calls')][1] = "approve" /\ post.state = "PendingReview") =>
             post'.state = "Published"
       /\ post.state = "Published" => post'.state = "Published"
       /\ post'.state = "Published" =>
             \E i, j \in 1..Len(calls') :
                 /\ i < j
                 /\ calls'[i][1] = "request_review"
                 /\ calls'[j][1] = "approve"]_vars

\* published by the last call, after an approve that came too early and a
\* second request_review that changed nothing
C17_Witness ==
    /\ post.state = "Published"
    /\ Len(calls) >= 4
    /\ LastCall = "approve"
    /\ calls[1][1] = "approve"
    /\ calls[2][1] = "request_review"
    /\ calls[3][1] = "request_review"

RECURSIVE AllText(_)
AllText(cs) ==
    IF cs = <<>> THEN ""
    ELSE AllText(SubSeq(cs, 1, Len(cs) - 1)) \o
         (IF cs[Len(cs)][1] = "add_text" THEN cs[Len(cs)][2] ELSE "")

\* C18: content() returns the empty string in Draft and in PendingReview,
\* and in Published the texts of all add_text calls so far, in call order.
C18_ContentOnlyWhenPublished ==
    /\ State_content(post.state, post) =
          (IF post.state = "Published" THEN AllText(calls) ELSE "")
    /\ (calls # <<>> /\ LastCall = "content") =>
          shown = (IF post.state = "Published" THEN AllText(calls) ELSE "")

\* content() of a published post with text added before and after publishing
C18_Witness ==
    /\ calls # <<>>
    /\ LastCall = "content"
    /\ post.state = "Published"
    /\ shown = "Hello, this is my first blog post! More."
    /\ calls[Len(calls) - 1] = <<"add_text", " More.">>

\* ======================================================================
\* Executor<T>, the memoizing wrapper of closures/src/main.rs (116-150), with
\* the closure |x| -> i32 { sleep; x + 1 } of lines 83-86
\* ======================================================================
MaxExecCalls == 4

I32Max == 2147483647
I32Min == -2147483647 - 1

Args == {3, 4, -1, I32Max}

\* executor_info : Executor { cache, value }, value <<>> for None and <<v>>
\*                 for Some(v)
\* invoked       : how many times the closure has run
\* eargs, rets   : the arguments value() was called with, and what it returned
\* epanicked     : the closure panicked (overflow in a build that checks it)

\* Executor::new(executor_closure)
ExecInit ==
    /\ executor_info = [value |-> <<>>]
    /\ invoked = 0
    /\ eargs = <<>>
    /\ rets = <<>>
    /\ epanicked = FALSE

\* x + 1 in i32: on overflow the build either panics or wraps
executor_closure(x) ==
    IF x = I32Max
    THEN {[panic |-> TRUE, val |-> 0], [panic |-> FALSE, val |-> I32Min]}
    ELSE {[panic |-> FALSE, val |-> x + 1]}

\* variant: the closure is run on every call
Executor_value_recomputed(e, x, o) ==
    [e |-> [e EXCEPT !.value = <<o.val>>], ret |-> o.val, ran |-> TRUE]

\* Executor::value, o being what (self.cache)(x) yields if it is called
Executor_value(e, x, o) ==
    IF e.value # <<>>
    THEN [e |-> e, ret |-> e.value[1], ran |-> FALSE]
    ELSE [e |-> [e EXCEPT !.value = <<o.val>>], ret |-> o.val, ran |-> TRUE]

\* executor_info.value(x)
ExecValue ==
    /\ ~epanicked
    /\ Len(eargs) < MaxExecCalls
    /\ \E x \in Args :
          \E o \in executor_closure(x) :
              LET r == Executor_value(executor_info, x, o)
              IN  /\ eargs' = Append(eargs, x)
                  /\ invoked' = invoked + (IF r.ran THEN 1 ELSE 0)
                  /\ IF r.ran /\ o.panic
                     THEN /\ epanicked' = TRUE
                          /\ UNCHANGED <<executor_info, rets>>
                     ELSE /\ executor_info' = r.e
                          /\ rets' = Append(rets, r.ret)
                          /\ UNCHANGED epanicked
    /\ UNCHANGED notExec

ExecNext ==
    \/ ExecValue

\* x + 1 as the closure computes it when it does not panic
PlusOne(x) == IF x = I32Max THEN I32Min ELSE x + 1

\* C19: the closure runs at most once, on the first call, and every call of
\* value() returns what the closure produced for the first call's argument,
\* whatever argument the call itself was given.
C19_ComputedOnce ==
    /\ invoked <= 1
    /\ eargs # <<>> => invoked = 1
    /\ \A i \in 1..Len(rets) : rets[i] = PlusOne(eargs[1])
    /\ ~epanicked =>
          /\ Len(rets) = Len(eargs)
          /\ executor_info.value = (IF eargs = <<>> THEN <<>> ELSE <<PlusOne(eargs[1])>>)
    /\ epanicked => eargs = <<I32Max>> /\ rets = <<>>
    /\ (Len(eargs) >= 2 /\ eargs[1] = 3 /\ eargs[2] = 4) => rets[1] = 4 /\ rets[2] = 4

\* value(3) then value(4), as in main: both returned 4
C19_Witness ==
    /\ eargs = <<3, 4>>
    /\ rets = <<4, 4>>
    /\ invoked = 1
    /\ executor_info.value = <<4>>

\* ======================================================================
\* enum List { Cons(i32, RefCell<Rc<List>>), Nil } (smart_pointer/src/lib.rs)
\* and the cycle of ch15-smart-pointers/src/main.rs, lines 186-205
\* ======================================================================
MaxBoxes == 4

Ref1Value == 5
Ref2Value == 10

Boxes == 1..MaxBoxes
HeadValues == {Ref1Value, Ref2Value}

\* list : the Rc<List> boxes: kind "free", "Nil", "Cons" or "dropped", the
\*        head and the tail cell of a Cons, and the strong counter
\* lext : owning handles held in bindings
\* lpc  : "start", "client", or the line of main about to run
\* refs : main's bindings ref_1 and ref_2

ListInit ==
    /\ list = [kind |-> [b \in Boxes |-> "free"],
               head |-> [b \in Boxes |-> 0],
               tail |-> [b \in Boxes |-> Null],
               strong |-> [b \in Boxes |-> 0]]
    /\ lext = [b \in Boxes |-> 0]
    /\ lpc = "start"
    /\ refs = [ref_1 |-> Null, ref_2 |-> Null]

FreeBoxes == {b \in Boxes : list.kind[b] = "free"}
\* the allocator hands out the lowest free box
NewBox(h) == CHOOSE b \in Boxes : h.kind[b] = "free" /\ \A c \in Boxes : h.kind[c] = "free" => b <= c

\* Rc::new(Nil)
RcNewNil(h, b) ==
    [h EXCEPT !.kind[b] = "Nil", !.strong[b] = 1]

\* Rc::new(Cons(v, RefCell::new(t))): the handle t moves into the cell
RcNewCons(h, b, v, t) ==
    [h EXCEPT !.kind[b] = "Cons", !.head[b] = v, !.tail[b] = t, !.strong[b] = 1]

\* drop of an Rc<List>: the last handle destroys the value, and a Cons
\* drops the handle in its tail cell
RECURSIVE ListRcDrop(_, _)
ListRcDrop(h, b) ==
    LET h1 == [h EXCEPT !.strong[b] = @ - 1]
    IN  IF h1.strong[b] > 0 THEN h1
        ELSE IF h.kind[b] = "Cons"
             THEN ListRcDrop([h1 EXCEPT !.kind[b] = "dropped", !.tail[b] = Null], h.tail[b])
             ELSE [h1 EXCEPT !.kind[b] = "dropped"]

\* List::tail: is there a tail cell
tail(h, b) == h.kind[b] = "Cons"

\* variant: the handle is stored without being counted
StoreTailUncounted(h, a, b) ==
    ListRcDrop([h EXCEPT !.tail[a] = b], h.tail[a])

\* *link.borrow_mut() = Rc::clone(&b): the clone is made, stored, and the
\* handle that was in the cell is dropped
StoreTail(h, a, b) ==
    ListRcDrop([RcClone(h, b) EXCEPT !.tail[a] = b], h.tail[a])

\* if let Some(link) = a.tail() { *link.borrow_mut() = Rc::clone(&b); }
set_tail(h, a, b) ==
    IF tail(h, a) THEN StoreTail(h, a, b) ELSE h

\* ---- any client of List
ListClient ==
    /\ lpc \in {"start", "client"}
    /\ lpc' = "client"
    /\ UNCHANGED <<refs, notList>>

\* let n = Rc::new(Nil)
NewNil ==
    /\ ListClient
    /\ FreeBoxes # {}
    /\ LET b == NewBox(list)
       IN  /\ list' = RcNewNil(list, b)
           /\ lext' = [lext EXCEPT ![b] = 1]

\* let a = Rc::new(Cons(v, RefCell::new(Rc::new(Nil))))
NewCons ==
    /\ ListClient
    /\ Cardinality(FreeBoxes) >= 2
    /\ \E v \in HeadValues :
          LET n == NewBox(list)
              h1 == RcNewNil(list, n)
              b == NewBox(h1)
          IN  /\ list' = RcNewCons(h1, b, v, n)
              /\ lext' = [lext EXCEPT ![b] = 1]

\* let a = Rc::new(Cons(v, RefCell::new(Rc::clone(&t))))
NewConsOnto ==
    /\ ListClient
    /\ FreeBoxes # {}
    /\ \E v \in HeadValues, t \in Boxes :
          /\ lext[t] > 0
          /\ LET b == NewBox(list)
             IN  /\ list' = RcNewCons(RcClone(list, t), b, v, t)
                 /\ lext' = [lext EXCEPT ![b] = 1]

\* if let Some(link) = a.tail() { *link.borrow_mut() = Rc::clone(&b); }
SetTail ==
    /\ ListClient
    /\ \E a, b \in Boxes :
          /\ lext[a] > 0 /\ lext[b] > 0
          /\ list' = set_tail(list, a, b)
          /\ UNCHANGED lext

\* a binding goes out of scope
DropBinding ==
    /\ ListClient
    /\ \E a \in Boxes :
          /\ lext[a] > 0
          /\ list' = ListRcDrop(list, a)
          /\ lext' = [lext EXCEPT ![a] = @ - 1]

\* ---- fn main(), lines 186-205
\* let ref_1 = Rc::new(Cons(5, RefCell::new(Rc::new(Nil))))
ListMain186 ==
    /\ lpc = "start"
    /\ LET n == NewBox(list)
           h1 == RcNewNil(list, n)
           b == NewBox(h1)
       IN  /\ list' = RcNewCons(h1, b, Ref1Value, n)
           /\ lext' = [lext EXCEPT ![b] = 1]
           /\ refs' = [refs EXCEPT !.ref_1 = b]
    /\ lpc' = "l190"
    /\ UNCHANGED notList

\* let ref_2 = Rc::new(Cons(10, RefCell::new(Rc::clone(&ref_1))))
ListMain190 ==
    /\ lpc = "l190"
    /\ LET b == NewBox(list)
       IN  /\ list' = RcNewCons(RcClone(list, refs.ref_1), b, Ref2Value, refs.ref_1)
           /\ lext' = [lext EXCEPT ![b] = 1]
           /\ refs' = [refs EXCEPT !.ref_2 = b]
    /\ lpc' = "l196"
    /\ UNCHANGED notList

\* if let Some(link) = ref_1.tail() { *link.borrow_mut() = Rc::clone(&ref_2); }
ListMain196 ==
    /\ lpc = "l196"
    /\ list' = set_tail(list, refs.ref_1, refs.ref_2)
    /\ lpc' = "l205"
    /\ UNCHANGED <<lext, refs, notList>>

\* end of main: ref_2 is dropped
ListMain205 ==
    /\ lpc = "l205"
    /\ list' = ListRcDrop(list, refs.ref_2)
    /\ lext' = [lext EXCEPT ![refs.ref_2] = @ - 1]
    /\ lpc' = "l205b"
    /\ UNCHANGED <<refs, notList>>

\* end of main: ref_1 is dropped
ListMain205b ==
    /\ lpc = "l205b"
    /\ list' = ListRcDrop(list, refs.ref_1)
    /\ lext' = [lext EXCEPT ![refs.ref_1] = @ - 1]
    /\ lpc' = "done"
    /\ UNCHANGED <<refs, notList>>

ListNext ==
    \/ NewNil
    \/ NewCons
    \/ NewConsOnto
    \/ SetTail
    \/ DropBinding
    \/ ListMain186
    \/ ListMain190
    \/ ListMain196
    \/ ListMain205
    \/ ListMain205b

\* boxes reached from b by following tail cells, b itself after one step
RECURSIVE TailReach(_, _, _)
TailReach(h, b, k) ==
    IF k = 0 \/ h.tail[b] = Null THEN {}
    ELSE {h.tail[b]} \cup TailReach(h, h.tail[b], k - 1)
OnCycle(h, b) == b \in TailReach(h, b, MaxBoxes)
TailRefs(h, b) == Cardinality({a \in Boxes : h.tail[a] = b})
\* no binding owns b or a box that leads to b
Unowned(h, x, b) == \A a \in Boxes : (a = b \/ b \in TailReach(h, a, MaxBoxes)) => x[a] = 0

\* C20: once ref_1's tail is ref_2, whose tail is ref_1, both have strong
\* count 2; after both bindings are dropped each still has strong count 1
\* and neither is destroyed.  In general a box on a cycle of tails is alive,
\* its strong count is its bindings plus the tail cells that hold it, and
\* once no binding leads to it, it stays as it is for ever.
C20_CycleLeaks ==
    [][/\ lpc' \in {"l205", "l205b", "done"} =>
             /\ list'.tail[refs'.ref_1] = refs'.ref_2
             /\ list'.tail[refs'.ref_2] = refs'.ref_1
             /\ list'.kind[refs'.ref_1] = "Cons" /\ list'.kind[refs'.ref_2] = "Cons"
       /\ lpc' = "l205" =>
             list'.strong[refs'.ref_1] = 2 /\ list'.strong[refs'.ref_2] = 2
       /\ lpc' = "done" =>
             /\ list'.strong[refs'.ref_1] = 1 /\ list'.strong[refs'.ref_2] = 1
             /\ \A b \in Boxes : lext'[b] = 0
       /\ \A b \in Boxes :
             /\ OnCycle(list', b) =>
                   /\ list'.kind[b] = "Cons"
                   /\ list'.strong[b] = lext'[b] + TailRefs(list', b)
                   /\ list'.strong[b] >= 1
             /\ (OnCycle(list, b) /\ Unowned(list, lext, b)) =>
                   /\ list'.kind[b] = list.kind[b]
                   /\ list'.strong[b] = list.strong[b]
                   /\ list'.tail[b] = list.tail[b]]_vars

\* main has ended: the two boxes own each other and nothing else owns them
C20_Witness ==
    /\ lpc = "done"
    /\ list.tail[refs.ref_1] = refs.ref_2
    /\ list.tail[refs.ref_2] = refs.ref_1
    /\ list.strong[refs.ref_1] = 1 /\ list.strong[refs.ref_2] = 1
    /\ list.kind[refs.ref_1] = "Cons" /\ list.kind[refs.ref_2] = "Cons"
    /\ lext = [b \in Boxes |-> 0]
    /\ \E n \in Boxes : list.kind[n] = "dropped"

\* ======================================================================
\* Email, the quota tracker of ch15-smart-pointers/src/main.rs (128-152),
\* with the MockMessenger of the tests as its messenger
\* ======================================================================
Maxes == {0, 10, 100}
Quotas == {0, 9, 90, 101}

\* tracker : the Email { messenger, max, value }, <<>> before Email::new
\* sets    : calls of set_value so far

EmailInit ==
    /\ tracker = <<>>
    /\ sets = 0

\* the branch of set_value: used_quota = value as f64 / max as f64, which
\* is infinite for max = 0 < value and NaN for 0 / 0 (NaN compares false)
QuotaMessage(v, max) ==
    IF max = 0
    THEN IF v > 0 THEN "Email quota exceeded" ELSE "Email quota is low"
    ELSE IF v > max THEN "Email quota exceeded"
    ELSE IF 10 * v = 9 * max THEN "Email quota at 90%"
    ELSE "Email quota is low"

\* variant: nothing is sent while the quota is low
SetValueStepsQuietWhenLow(v, max) ==
    IF QuotaMessage(v, max) = "Email quota is low"
    THEN << <<"eval", MsgsCell, "">> >>
    ELSE SendSteps(QuotaMessage(v, max))

\* Email::set_value after self.value = value: one of the three sends
SetValueSteps(v, max) ==
    SendSteps(QuotaMessage(v, max))

\* let mut tracker = Email::new(&mock, max)
EmailNew ==
    /\ tracker = <<>>
    /\ cpc = Idle
    /\ ~panicked
    /\ \E max \in Maxes : tracker' = <<[max |-> max, value |-> 0]>>
    /\ UNCHANGED <<sets, cellVars, notEmail>>

\* tracker.set_value(v)
CallSetValue ==
    /\ tracker # <<>>
    /\ cpc = Idle
    /\ ~panicked
    /\ cops < MaxCellOps
    /\ cops' = cops + 1
    /\ sets' = sets + 1
    /\ \E v \in Quotas :
          /\ tracker' = <<[tracker[1] EXCEPT !.value = v]>>
          /\ cpc' = [op |-> "set_value", todo |-> SetValueSteps(v, tracker[1].max)]
    /\ UNCHANGED <<borrow, held, panicked, msgs, notEmail>>

\* let guard = mock.msgs.borrow_mut(), kept by the caller
CallHoldMsgs == Begin("hold", HoldSteps(MsgsCell))

EmailNext ==
    \/ EmailNew
    \/ CallSetValue
    \/ CallLen
    \/ CallHoldMsgs
    \/ StepBorrowMut
    \/ StepBorrow
    \/ StepUse
    \/ StepPush
    \/ StepRelease
    \/ StepKeep
    \/ DropGuard

\* C21: every call of set_value that returns has added exactly one message:
\* between calls the message list is as long as the number of calls made,
\* during a call it is at most one short, and a call made while the caller
\* keeps a guard of the list dies before anything is added.  One call with
\* value 90 on a tracker of max 100 leaves the single message of the 90%
\* branch.
C21_OneMessagePerCall ==
    /\ (cpc = Idle \/ cpc.op # "set_value") => Len(msgs) = sets
    /\ (cpc # Idle /\ cpc.op = "set_value") =>
          /\ Len(msgs) = (IF Len(cpc.todo) >= 2 THEN sets - 1 ELSE sets)
          /\ panicked => Len(msgs) = sets - 1 /\ held[MsgsCell] > 0
    /\ (sets = 1 /\ cpc = Idle /\ tracker = <<[max |-> 100, value |-> 90]>>) =>
          msgs = <<"Email quota at 90%">>
    /\ \A i \in 1..Len(msgs) : msgs[i] \in Messages

\* three calls have returned, the last one in the 90% branch
C21_Witness ==
    /\ cpc = Idle
    /\ sets = 3
    /\ Len(msgs) = 3
    /\ tracker = <<[max |-> 100, value |-> 90]>>
    /\ msgs[3] = "Email quota at 90%"
    /\ msgs[1] # msgs[2]

\* ======================================================================
\* search (ch12-minigrep-project/src/lib.rs, lines 1-4).  A text is the
\* sequence of its characters; "NL" is the line feed and "CR" the carriage
\* return.
\* ======================================================================
MaxFileLen == 3
MaxQueryLen == 2

Chars == {"h", "H", "NL", "CR"}
Texts_(n) == UNION {[1..k -> Chars] : k \in 0..n}

\* the file and the query of test_search
TestFile ==
    <<"h", "e", "l", "l", "o", " ", "w", "o", "r", "l", "d", "NL",
      "h", "e", "l", "l", "o", " ", "r", "u", "s", "t", "NL",
      "h", "e", "l", "l", "o", "NL">>
TestQuery == <<"h", "e", "l", "l", "o">>

Files == Texts_(MaxFileLen) \cup {TestFile}
Queries == Texts_(MaxQueryLen) \cup {TestQuery}

\* file, query : the arguments
\* found       : <<>> before the call, <<result>> after it

SearchIdle ==
    /\ file = <<>>
    /\ query = <<>>
    /\ found = <<>>

SearchInit ==
    /\ file \in Files
    /\ query \in Queries
    /\ found = <<>>

\* the first line feed of t, 0 when there is none
FirstNL(t) ==
    IF \E i \in 1..Len(t) : t[i] = "NL"
    THEN CHOOSE i \in 1..Len(t) : t[i] = "NL" /\ \A j \in 1..(i - 1) : t[j] # "NL"
    ELSE 0

\* str::split_inclusive('\n'): the pieces end with their line feed, the
\* last one may lack it, and the empty text has no piece
RECURSIVE SplitInclusive(_)
SplitInclusive(t) ==
    IF t = <<>> THEN <<>>
    ELSE IF FirstNL(t) = 0 THEN <<t>>
    ELSE <<SubSeq(t, 1, FirstNL(t))>> \o SplitInclusive(SubSeq(t, FirstNL(t) + 1, Len(t)))

\* the piece without its line feed, and without the carriage return before
\* that line feed; a piece without line feed is kept whole
StripTerminator(piece) ==
    IF piece[Len(piece)] # "NL" THEN piece
    ELSE LET l == SubSeq(piece, 1, Len(piece) - 1)
         IN  IF l # <<>> /\ l[Len(l)] = "CR" THEN SubSeq(l, 1, Len(l) - 1) ELSE l

\* str::lines
lines(t) ==
    [i \in 1..Len(SplitInclusive(t)) |-> StripTerminator(SplitInclusive(t)[i])]

\* char::to_lowercase
ToLower(c) == IF c = "H" THEN "h" ELSE c

\* variant: the comparison of search_case_insensitive
contains_ignoring_case(line, q) ==
    \E i \in 0..(Len(line) - Len(q)) :
        \A j \in 1..Len(q) : ToLower(line[i + j]) = ToLower(q[j])

\* str::contains(&str)
contains(line, q) ==
    \E i \in 0..(Len(line) - Len(q)) :
        \A j \in 1..Len(q) : line[i + j] = q[j]

\* the lines in turn: kept when the filter holds, copied by to_string
RECURSIVE FilterLines(_, _)
FilterLines(ls, q) ==
    IF ls = <<>> THEN <<>>
    ELSE (IF contains(Head(ls), q) THEN <<Head(ls)>> ELSE <<>>) \o FilterLines(Tail(ls), q)

\* file.lines().filter(|line| line.contains(query)).map(..).collect()
search(t, q) == FilterLines(lines(t), q)

\* let results = search(file, query)
Search ==
    /\ found = <<>>
    /\ found' = <<search(file, query)>>
    /\ UNCHANGED <<file, query, notSearch>>

SearchNext ==
    \/ Search

\* the lines of a text, stated from the positions of its line feeds: line k
\* runs from after the (k-1)-th line feed to before the k-th one (to the
\* end of the text for an unterminated last line), a carriage return
\* directly before the line feed being part of the terminator
LineFeeds(t) == {i \in 1..Len(t) : t[i] = "NL"}
NthOf(S, k) == CHOOSE p \in S : Cardinality({x \in S : x < p}) = k - 1
LineCount(t) ==
    Cardinality(LineFeeds(t)) + (IF t # <<>> /\ t[Len(t)] # "NL" THEN 1 ELSE 0)
LineStart(t, k) == IF k = 1 THEN 1 ELSE NthOf(LineFeeds(t), k - 1) + 1
LineEnd(t, k) ==
    IF k > Cardinality(LineFeeds(t)) THEN Len(t)
    ELSE LET nl == NthOf(LineFeeds(t), k)
         IN  IF nl - 1 >= LineStart(t, k) /\ t[nl - 1] = "CR" THEN nl - 2 ELSE nl - 1
LineOf(t, k) == SubSeq(t, LineStart(t, k), LineEnd(t, k))
Occurs(q, l) == \E o \in 0..(Len(l) - Len(q)) : SubSeq(l, o + 1, o + Len(q)) = q
Matching(t, q) == {k \in 1..LineCount(t) : Occurs(q, LineOf(t, k))}

\* C22: the result of search(file, query) is the lines of file in which
\* query occurs, letter case included, one entry per such line and in the
\* order of the file; it is empty when query occurs in no line; for the
\* file and query of test_search it is the three lines of the file.
C22_SearchReturnsMatchingLines ==
    found # <<>> =>
        LET res == found[1]
            M == Matching(file, query)
        IN  /\ Len(res) = Cardinality(M)
            /\ \A i \in 1..Len(res) : res[i] = LineOf(file, NthOf(M, i))
            /\ M = {} => res = <<>>
            /\ (file = TestFile /\ query = TestQuery) =>
                  res = << <<"h", "e", "l", "l", "o", " ", "w", "o", "r", "l", "d">>,
                           <<"h", "e", "l", "l", "o", " ", "r", "u", "s", "t">>,
                           TestQuery >>

\* a file of two lines that differ in case only: one is returned
C22_Witness ==
    /\ file = <<"H", "NL", "h">>
    /\ query = <<"h">>
    /\ found = << << <<"h">> >> >>

\* ======================================================================
\* Rectangle::is_small (ch11-testing/src/lib.rs, lines 11-16).  A u32 is the
\* sequence of its four bytes, lowest first, so that the product of two of
\* them is computed in full and its overflow is seen.
\* ======================================================================
Byte == 256
SmallWidth == 10
SmallArea == 100

\* the u32 of a number below 2^31
U32(n) == <<n % Byte, (n \div Byte) % Byte, (n \div (Byte * Byte)) % Byte,
            n \div (Byte * Byte * Byte)>>
U32Max == <<Byte - 1, Byte - 1, Byte - 1, Byte - 1>>

Dims ==
    {U32(0), U32(1), U32(5), U32(9), U32(10), U32(11), U32(50), U32(99), U32(100),
     U32(65536), U32(429496730), U32Max}

\* rect  : the Rectangle { width, height }
\* small : <<>> before the call, <<outcome>> after it: the panic message
\*         ("" for none) and the value returned

RectIdle ==
    /\ rect = [width |-> U32(0), height |-> U32(0)]
    /\ small = <<>>

RectInit ==
    /\ rect \in [width : Dims, height : Dims]
    /\ small = <<>>

\* x < n for a u32 x and a number n below 256
Below(x, n) == x[1] < n /\ \A i \in 2..Len(x) : x[i] = 0

\* the product of two u32 in full, eight bytes
Column(a, b, k) ==
    LET T[i \in 0..4] ==
            IF i = 0 THEN 0
            ELSE T[i - 1] + (IF k - i + 1 \in 1..4 THEN a[i] * b[k - i + 1] ELSE 0)
    IN  T[4]
FullProduct(a, b) ==
    LET C[k \in 0..8] ==
            IF k = 0 THEN [carry |-> 0, bytes |-> <<>>]
            ELSE LET t == Column(a, b, k) + C[k - 1].carry
                 IN  [carry |-> t \div Byte, bytes |-> Append(C[k - 1].bytes, t % Byte)]
    IN  C[8].bytes

\* u32 * u32 overflows when the full product does not fit four bytes
MulOverflows(a, b) == \E i \in 5..8 : FullProduct(a, b)[i] # 0
WrappingMul(a, b) == SubSeq(FullProduct(a, b), 1, 4)

\* Rectangle::is_small: its outcomes; on overflow of width * height the
\* build either panics or goes on with the wrapped product
is_small(r) ==
    IF Below(r.width, SmallWidth)
    THEN {[panic |-> "rect small", ret |-> FALSE]}
    ELSE {[panic |-> "", ret |-> Below(WrappingMul(r.width, r.height), SmallArea)]}
         \cup (IF MulOverflows(r.width, r.height)
                THEN {[panic |-> "attempt to multiply with overflow", ret |-> FALSE]}
                ELSE {})

\* rect.is_small()
IsSmall ==
    /\ small = <<>>
    /\ \E o \in is_small(rect) : small' = <<o>>
    /\ UNCHANGED <<rect, notRect>>

RectNext ==
    \/ IsSmall

\* C23 as stated: a width below 10 panics with "rect small" whatever the
\* height; a width of 10 or more never panics and the value returned is
\* true exactly when width * height is below 100.
C23_IsSmallAsStated ==
    small # <<>> =>
        IF Below(rect.width, SmallWidth)
        THEN small[1].panic = "rect small"
        ELSE /\ small[1].panic = ""
             /\ small[1].ret <=> Below(FullProduct(rect.width, rect.height), SmallArea)

\* ------------------------------------------------------ specifications
InitPrograms ==
    Init /\ CellsInit /\ ConcInit /\ PostInit /\ ExecInit /\ ListInit /\ EmailInit /\ TempInit

InitAll == InitPrograms /\ SearchIdle /\ RectIdle

\* the arguments of search drawn from Files and Queries
InitSearch == InitPrograms /\ SearchInit /\ RectIdle

\* the Rectangle drawn from Dims
InitRect == InitPrograms /\ SearchIdle /\ RectInit

SpecSearch == InitSearch /\ [][SearchNext]_vars

SpecRect == InitRect /\ [][RectNext]_vars

SpecEmail == InitAll /\ [][EmailNext]_vars

SpecConc == InitAll /\ [][ConcNext]_vars

SpecPost == InitAll /\ [][PostNext]_vars

SpecExec == InitAll /\ [][ExecNext]_vars

SpecList == InitAll /\ [][ListNext]_vars

SpecCells == InitAll /\ [][CellsNext]_vars

SpecTemp == InitAll /\ [][TempNext]_vars

Spec == InitAll /\ [][Next]_vars
====
